---- MODULE Spec2Model ----
(***************************************************************************)
(* Model of pl_rankings_update.py: the matchweek completion check, the     *)
(* standings parser, the next-opponent enrichment, the append-only CSV     *)
(* history and main, which runs them in sequence.                          *)
(*                                                                         *)
(* JSON payloads are records holding the keys the code reads.  Columns the *)
(* code copies verbatim and never inspects (team_name, won, drawn, lost,   *)
(* goalsFor, goalsAgainst, goal_difference, points, next_opponent_name)    *)
(* are left out of the rows.  A CSV file is the sequence of its lines, a   *)
(* line being the record of its text fields.                               *)
(***************************************************************************)
EXTENDS Integers, Sequences, FiniteSets, TLC

VARIABLES
    store,        \* the history file: [exists, lines]
    pc,           \* position of each run of main
    df,           \* df_new of each run
    enr,          \* next_ids / next_home_flags collected so far by each run
    saved,        \* saved_matchweeks read by each run
    gate,         \* what is_matchweek_complete returned in each run
    outcome,      \* how each run ended
    clock,        \* number of snapshot timestamps taken so far
    call,         \* last direct call of append_history: its input and the file before
    in_standings, \* standings response handed to a direct call of parse_standings
    in_fixtures,  \* matches response handed to a direct call
    out_parse,    \* result of the direct call of parse_standings
    out_complete  \* result of the direct call of is_matchweek_complete

vars == <<store, pc, df, enr, saved, gate, outcome, clock, call,
          in_standings, in_fixtures, out_parse, out_complete>>

-----------------------------------------------------------------------------
(* Program constants *)

LEAGUE_SIZE == 20
FullRoundMatches == LEAGUE_SIZE \div 2
SEASON_ID == 2025
NoId == -1

(* Bounds of the model *)

MaxRound == 2
MaxRuns == 3
MaxMut == 2
MaxExtra == 1

Procs == {1, 2}

-----------------------------------------------------------------------------
(* Conversions *)

\* str(x) of a JSON id; str(None) is "None"
Str(id) == IF id = NoId THEN "None" ELSE ToString(id)

\* pandas' integer inference on a CSV text field
ParseInt(s) == CHOOSE n \in 0..(MaxRound + LEAGUE_SIZE + 2) : ToString(n) = s

\* sorted(...)
Sorted(s) == SortSeq(s, LAMBDA a, b : a < b)

Range1(n) == [i \in 1..n |-> i]

-----------------------------------------------------------------------------
(* is_matchweek_complete *)

team_ids(matches) ==
    UNION { (IF matches[k].home # NoId THEN {Str(matches[k].home)} ELSE {})
            \cup (IF matches[k].away # NoId THEN {Str(matches[k].away)} ELSE {})
            : k \in 1..Len(matches) }

\* faulty variant: the docstring's older rule, exactly 10 fixtures, in place of the team count
FixtureCountRule(matches) ==
    IF matches = <<>> THEN FALSE
    ELSE IF \E k \in 1..Len(matches) : matches[k].period # "FullTime" THEN FALSE
    ELSE Len(matches) = FullRoundMatches

\* faulty variant: the period check left out
NoPeriodCheck(matches) ==
    IF matches = <<>> THEN FALSE
    ELSE Cardinality(team_ids(matches)) = LEAGUE_SIZE

is_matchweek_complete(matches) ==
    IF matches = <<>> THEN FALSE
    ELSE IF \E k \in 1..Len(matches) : matches[k].period # "FullTime" THEN FALSE
    ELSE Cardinality(team_ids(matches)) = LEAGUE_SIZE

-----------------------------------------------------------------------------
(* parse_standings *)

\* A result of parse_standings: a frame of rows, the empty frame, or the
\* exception raised.
Raise(kind, msg) == [kind |-> kind, msg |-> msg, rows |-> <<>>]
EmptyFrame == [kind |-> "empty", msg |-> "", rows |-> <<>>]
Frame(rows) == [kind |-> "rows", msg |-> "", rows |-> rows]

PhaseARow(entry, snapshot_utc, season_id, matchweek) ==
    [snapshot_utc |-> snapshot_utc, season_id |-> season_id,
     matchweek |-> matchweek, position |-> entry.position,
     team_id |-> entry.team_id]

\* faulty variant: positions validated before the completion gate
GateAfterPositions(s, f, now) ==
    IF ~s.ok THEN Raise("TransportError", "standings")
    ELSE IF ~s.tables THEN Raise("RuntimeError", "No tables found in JSON.")
    ELSE IF Len(s.entries) # LEAGUE_SIZE
        THEN Raise("RuntimeError", "Expected 20 entries")
    ELSE IF Sorted([i \in 1..Len(s.entries) |-> s.entries[i].position])
                # Range1(LEAGUE_SIZE)
        THEN Raise("RuntimeError", "Positions are not exactly 1...20.")
    ELSE IF ~f.ok THEN Raise("TransportError", "matches")
    ELSE IF ~is_matchweek_complete(f.data) THEN EmptyFrame
    ELSE Frame([i \in 1..Len(s.entries) |->
                   PhaseARow(s.entries[i], now, s.season, s.matchweek)])

\* faulty variant: the completion gate ahead of the entry count check
GateBeforeCount(s, f, now) ==
    IF ~s.ok THEN Raise("TransportError", "standings")
    ELSE IF ~s.tables THEN Raise("RuntimeError", "No tables found in JSON.")
    ELSE IF ~f.ok THEN Raise("TransportError", "matches")
    ELSE IF ~is_matchweek_complete(f.data) THEN EmptyFrame
    ELSE IF Len(s.entries) # LEAGUE_SIZE
        THEN Raise("RuntimeError", "Expected 20 entries")
    ELSE IF Sorted([i \in 1..Len(s.entries) |-> s.entries[i].position])
                # Range1(LEAGUE_SIZE)
        THEN Raise("RuntimeError", "Positions are not exactly 1...20.")
    ELSE Frame([i \in 1..Len(s.entries) |->
                   PhaseARow(s.entries[i], now, s.season, s.matchweek)])

\* faulty variant: the early return for an incomplete matchweek left out
NoCompletionGate(s, f, now) ==
    IF ~s.ok THEN Raise("TransportError", "standings")
    ELSE IF ~s.tables THEN Raise("RuntimeError", "No tables found in JSON.")
    ELSE IF Len(s.entries) # LEAGUE_SIZE
        THEN Raise("RuntimeError", "Expected 20 entries")
    ELSE IF ~f.ok THEN Raise("TransportError", "matches")
    ELSE IF Sorted([i \in 1..Len(s.entries) |-> s.entries[i].position])
                # Range1(LEAGUE_SIZE)
        THEN Raise("RuntimeError", "Positions are not exactly 1...20.")
    ELSE Frame([i \in 1..Len(s.entries) |->
                   PhaseARow(s.entries[i], now, s.season, s.matchweek)])

parse_standings(s, f, now) ==
    IF ~s.ok THEN Raise("TransportError", "standings")
    ELSE IF ~s.tables THEN Raise("RuntimeError", "No tables found in JSON.")
    ELSE IF Len(s.entries) # LEAGUE_SIZE
        THEN Raise("RuntimeError", "Expected 20 entries")
    ELSE IF ~f.ok THEN Raise("TransportError", "matches")
    ELSE IF ~is_matchweek_complete(f.data) THEN EmptyFrame
    ELSE LET all_rows == [i \in 1..Len(s.entries) |->
                            PhaseARow(s.entries[i], now, s.season, s.matchweek)]
         IN  IF all_rows = <<>>
                 THEN Raise("RuntimeError", "Parsed 0 rows")
             ELSE IF Sorted([i \in 1..Len(all_rows) |-> all_rows[i].position])
                         # Range1(LEAGUE_SIZE)
                 THEN Raise("RuntimeError", "Positions are not exactly 1...20.")
             ELSE Frame(all_rows)

-----------------------------------------------------------------------------
(* Responses of the standings endpoint *)

BaseEntries(n) == [i \in 1..n |-> [position |-> i, team_id |-> i]]

ReversedEntries(n) == [i \in 1..n |-> [position |-> n + 1 - i, team_id |-> i]]

\* entry i reports position v
WithPosition(entries, i, v) ==
    [k \in 1..Len(entries) |->
        IF k = i THEN [entries[k] EXCEPT !.position = v] ELSE entries[k]]

EntryLists ==
    { BaseEntries(n) : n \in {0} \cup ((LEAGUE_SIZE - MaxExtra)..(LEAGUE_SIZE + MaxExtra)) }
    \cup { ReversedEntries(LEAGUE_SIZE) }
    \cup { WithPosition(BaseEntries(n), i, v) :
             n \in (LEAGUE_SIZE - 1)..LEAGUE_SIZE, i \in 1..MaxMut,
             v \in {0, MaxMut + 1, LEAGUE_SIZE, LEAGUE_SIZE + 1} }

StandingsFailure ==
    [ok |-> FALSE, tables |-> FALSE, entries |-> <<>>, season |-> SEASON_ID,
     matchweek |-> 1]

StandingsResponses ==
    { StandingsFailure }
    \cup { [ok |-> TRUE, tables |-> FALSE, entries |-> <<>>, season |-> SEASON_ID,
            matchweek |-> 1] }
    \cup { [ok |-> TRUE, tables |-> TRUE, entries |-> e, season |-> SEASON_ID,
            matchweek |-> r] : e \in EntryLists, r \in 1..MaxRound }

(* Responses of the matchweek matches endpoint *)

Periods == {"FullTime", "PreMatch", "None"}

\* fixture k of a regular round: team 2k-1 at home to team 2k; a fixture past
\* the tenth is either a repeat of an earlier one or between further teams
BaseFixture(k, extra) ==
    LET j == IF k > FullRoundMatches /\ extra = "repeat"
             THEN k - FullRoundMatches ELSE k
    IN  [period |-> "FullTime", home |-> 2 * j - 1, away |-> 2 * j]

BaseMatches(n, extra) == [k \in 1..n |-> BaseFixture(k, extra)]

\* fixture i has period p and, per h, its home id kept, missing, or equal to
\* the away id of the next fixture
WithFixture(matches, i, p, h) ==
    [k \in 1..Len(matches) |->
        IF k # i THEN matches[k]
        ELSE [period |-> p,
              home |-> CASE h = "keep" -> matches[k].home
                         [] h = "none" -> NoId
                         [] OTHER -> matches[k].away + 2,
              away |-> matches[k].away]]

MatchLists ==
    { WithFixture(BaseMatches(n, extra), i, p, h) :
        n \in 0..(FullRoundMatches + MaxExtra), extra \in {"repeat", "new"},
        i \in 1..MaxMut, p \in Periods, h \in {"keep", "none", "dup"} }

MatchesFailure == [ok |-> FALSE, data |-> <<>>]

MatchesResponses ==
    { MatchesFailure } \cup { [ok |-> TRUE, data |-> m] : m \in MatchLists }

-----------------------------------------------------------------------------
(* fetch_next_fixture_json, extract_next_opponent, add_next_opponents *)

\* the schedule pairs team 2k-1, at home, with team 2k
PairedFixture(t) ==
    IF t % 2 = 1 THEN [ok |-> TRUE, home |-> t, away |-> t + 1]
    ELSE [ok |-> TRUE, home |-> t - 1, away |-> t]

NextFixtureResponses(t) ==
    { PairedFixture(t),
      [ok |-> TRUE, home |-> t + LEAGUE_SIZE, away |-> t + LEAGUE_SIZE + 1],
      [ok |-> TRUE, home |-> NoId, away |-> NoId],
      [ok |-> FALSE, home |-> NoId, away |-> NoId] }

extract_next_opponent(team_id, fixture) ==
    LET home_id == Str(fixture.home)
        away_id == Str(fixture.away)
        team == Str(team_id)
    IN  IF team = home_id
            THEN [kind |-> "ok", opp_id |-> Str(fixture.away), is_home |-> TRUE]
        ELSE IF team = away_id
            THEN [kind |-> "ok", opp_id |-> Str(fixture.home), is_home |-> FALSE]
        ELSE [kind |-> "RuntimeError", opp_id |-> "", is_home |-> FALSE]

\* the three column assignments after the loop, and main's df_new[COLS]
WithOpponents(rows, opps) ==
    [i \in 1..Len(rows) |->
        [snapshot_utc |-> rows[i].snapshot_utc, season_id |-> rows[i].season_id,
         matchweek |-> rows[i].matchweek, position |-> rows[i].position,
         team_id |-> rows[i].team_id,
         next_opponent_id |-> opps[i].opp_id, is_home_next |-> opps[i].is_home]]

-----------------------------------------------------------------------------
(* The history file and append_history *)

NoFile == [exists |-> FALSE, lines |-> <<>>]

HeaderLine ==
    [snapshot_utc |-> "snapshot_utc", season_id |-> "season_id",
     matchweek |-> "matchweek", position |-> "position", team_id |-> "team_id",
     next_opponent_id |-> "next_opponent_id", is_home_next |-> "is_home_next"]

CsvLine(row) ==
    [snapshot_utc |-> ToString(row.snapshot_utc),
     season_id |-> ToString(row.season_id),
     matchweek |-> ToString(row.matchweek),
     position |-> ToString(row.position),
     team_id |-> ToString(row.team_id),
     next_opponent_id |-> row.next_opponent_id,
     is_home_next |-> IF row.is_home_next THEN "True" ELSE "False"]

CsvLines(rows) == [i \in 1..Len(rows) |-> CsvLine(rows[i])]

PathExists(file) == file.exists

\* pd.read_csv: the first line names the columns, the others are the rows
read_csv(file) == Tail(file.lines)

\* faulty variant: only the last saved matchweek is compared
LastSavedMatchweek(hist) ==
    IF hist = <<>> THEN {} ELSE { ParseInt(hist[Len(hist)].matchweek) }

saved_matchweeks(hist) == { ParseInt(hist[i].matchweek) : i \in 1..Len(hist) }

\* faulty variant: to_csv without mode="a"
ToCsvTruncating(rows, file) ==
    [exists |-> TRUE, lines |-> <<HeaderLine>> \o CsvLines(rows)]

\* faulty variant: to_csv without header=False
ToCsvAppendWithHeader(rows, file) ==
    [exists |-> TRUE, lines |-> file.lines \o <<HeaderLine>> \o CsvLines(rows)]

\* df_new.to_csv(history_csv, mode="a", header=False, index=False)
to_csv_append(rows, file) ==
    [exists |-> TRUE, lines |-> file.lines \o CsvLines(rows)]

\* df_new.to_csv(history_csv, index=False)
to_csv_create(rows) ==
    [exists |-> TRUE, lines |-> <<HeaderLine>> \o CsvLines(rows)]

\* faulty variant: the dedupe check left out
AppendWithoutDedupe(df_new, file) ==
    IF df_new = <<>> THEN [file |-> file, report |-> "No rows to append."]
    ELSE IF PathExists(file)
        THEN [file |-> to_csv_append(df_new, file), report |-> "Appended"]
    ELSE [file |-> to_csv_create(df_new), report |-> "Created"]

\* faulty variant: the empty check made only when the file exists
AppendEmptyWritesHeader(df_new, file) ==
    IF PathExists(file)
        THEN IF df_new = <<>> THEN [file |-> file, report |-> "No rows to append."]
             ELSE IF df_new[1].matchweek \in saved_matchweeks(read_csv(file))
                 THEN [file |-> file, report |-> "already recorded"]
             ELSE [file |-> to_csv_append(df_new, file), report |-> "Appended"]
    ELSE [file |-> to_csv_create(df_new), report |-> "Created"]

append_history(df_new, file) ==
    IF df_new = <<>> THEN [file |-> file, report |-> "No rows to append."]
    ELSE LET matchweek == df_new[1].matchweek
         IN  IF PathExists(file)
                 THEN IF matchweek \in saved_matchweeks(read_csv(file))
                          THEN [file |-> file, report |-> "already recorded"]
                      ELSE [file |-> to_csv_append(df_new, file),
                            report |-> "Appended"]
             ELSE [file |-> to_csv_create(df_new), report |-> "Created"]

-----------------------------------------------------------------------------
(* Direct calls of the two pure functions *)

NotCalled == Raise("none", "")

InitShared ==
    /\ pc = [p \in Procs |-> "idle"]
    /\ df = [p \in Procs |-> <<>>]
    /\ enr = [p \in Procs |-> <<>>]
    /\ saved = [p \in Procs |-> {}]
    /\ gate = [p \in Procs |-> "none"]
    /\ outcome = [p \in Procs |-> "none"]
    /\ clock = 0
    /\ call = [made |-> FALSE, df |-> <<>>, before |-> NoFile, report |-> ""]
    /\ out_parse = NotCalled
    /\ out_complete = "none"

InitPure ==
    /\ InitShared
    /\ store = NoFile
    /\ in_standings \in StandingsResponses
    /\ in_fixtures \in MatchesResponses

CallParse ==
    /\ out_parse = NotCalled
    /\ out_parse' = parse_standings(in_standings, in_fixtures, 1)
    /\ UNCHANGED <<store, pc, df, enr, saved, gate, outcome, clock, call,
                   in_standings, in_fixtures, out_complete>>

CallComplete ==
    /\ in_fixtures.ok
    /\ out_complete = "none"
    /\ out_complete' = IF is_matchweek_complete(in_fixtures.data) THEN "True" ELSE "False"
    /\ UNCHANGED <<store, pc, df, enr, saved, gate, outcome, clock, call,
                   in_standings, in_fixtures, out_parse>>

NextPure == CallParse \/ CallComplete

SpecPure == InitPure /\ [][NextPure]_vars

-----------------------------------------------------------------------------
(* Direct calls of append_history *)

\* what add_next_opponents returns when every request succeeds
Enriched(rows) ==
    WithOpponents(rows, [i \in 1..Len(rows) |->
        extract_next_opponent(rows[i].team_id, PairedFixture(rows[i].team_id))])

CompleteRound == [ok |-> TRUE, data |-> BaseMatches(FullRoundMatches, "new")]

Snapshot(entries, r, now) ==
    Enriched(parse_standings(
        [ok |-> TRUE, tables |-> TRUE, entries |-> entries, season |-> SEASON_ID,
         matchweek |-> r], CompleteRound, now).rows)

AppendInputs ==
    { <<>> }
    \cup { Snapshot(e, r, now) :
             e \in {BaseEntries(LEAGUE_SIZE), ReversedEntries(LEAGUE_SIZE)},
             r \in 1..MaxRound, now \in {1, MaxRuns} }

InitAppend ==
    /\ InitShared
    /\ store = NoFile
    /\ in_standings = StandingsFailure
    /\ in_fixtures = MatchesFailure

CallAppend ==
    \E d \in AppendInputs :
        LET res == append_history(d, store) IN
        /\ store' = res.file
        /\ call' = [made |-> TRUE, df |-> d, before |-> store, report |-> res.report]
        /\ UNCHANGED <<pc, df, enr, saved, gate, outcome, clock,
                       in_standings, in_fixtures, out_parse, out_complete>>

NextAppend == CallAppend

SpecAppend == InitAppend /\ [][NextAppend]_vars

-----------------------------------------------------------------------------
(* main *)

Finished(p) == pc[p] \in {"idle", "done"}

End(p, how) ==
    /\ pc' = [pc EXCEPT ![p] = "done"]
    /\ outcome' = [outcome EXCEPT ![p] = how]

\* an exception leaves main: the run's frames are gone
Abort(p, error) ==
    /\ End(p, error)
    /\ df' = [df EXCEPT ![p] = <<>>]
    /\ enr' = [enr EXCEPT ![p] = <<>>]

\* what one call of parse_standings at time now can come to, over the
\* responses of the two endpoints: its result and what the completion check
\* returned, if it was reached
ParseOutcomes ==
    { [now |-> now,
       res |-> parse_standings(s, f, now),
       gate |-> IF ~(s.ok /\ s.tables /\ Len(s.entries) = LEAGUE_SIZE /\ f.ok)
                    THEN "none"
                ELSE IF is_matchweek_complete(f.data) THEN "True" ELSE "False"] :
        s \in StandingsResponses, f \in MatchesResponses, now \in 1..MaxRuns }

\* df_new = parse_standings(STANDINGS_URL); if df_new.empty: return
Parse(p) ==
    /\ Finished(p)
    /\ clock < MaxRuns
    /\ clock' = clock + 1
    /\ \E o \in ParseOutcomes :
          /\ o.now = clock + 1
          /\ gate' = [gate EXCEPT ![p] = o.gate]
          /\ df' = [df EXCEPT ![p] = o.res.rows]
          /\ pc' = [pc EXCEPT ![p] = IF o.res.kind = "rows" THEN "enrich" ELSE "done"]
          /\ outcome' = [outcome EXCEPT ![p] =
                            CASE o.res.kind = "rows" -> "none"
                              [] o.res.kind = "empty" -> "NOT_READY"
                              [] OTHER -> o.res.kind]
    /\ enr' = [enr EXCEPT ![p] = <<>>]
    /\ saved' = [saved EXCEPT ![p] = {}]
    /\ UNCHANGED <<store, call, in_standings, in_fixtures, out_parse, out_complete>>

\* one iteration of the loop of add_next_opponents
EnrichTeam(p) ==
    /\ pc[p] = "enrich"
    /\ Len(enr[p]) < Len(df[p])
    /\ LET team_id == df[p][Len(enr[p]) + 1].team_id IN
       \E fixture \in NextFixtureResponses(team_id) :
          LET opp == extract_next_opponent(team_id, fixture) IN
          IF ~fixture.ok
              THEN Abort(p, "TransportError")
          ELSE IF opp.kind # "ok"
              THEN Abort(p, opp.kind)
          ELSE /\ enr' = [enr EXCEPT ![p] = Append(@, opp)]
               /\ UNCHANGED <<pc, outcome, df>>
    /\ UNCHANGED <<store, saved, gate, clock, call,
                   in_standings, in_fixtures, out_parse, out_complete>>

\* the end of add_next_opponents, df_new[COLS], and append_history up to
\* os.path.exists
EnrichDone(p) ==
    /\ pc[p] = "enrich"
    /\ Len(enr[p]) = Len(df[p])
    /\ df' = [df EXCEPT ![p] = WithOpponents(df[p], enr[p])]
    /\ IF df[p] = <<>>
           THEN End(p, "NO_ROWS")
       ELSE /\ pc' = [pc EXCEPT ![p] = IF PathExists(store) THEN "read" ELSE "create"]
            /\ UNCHANGED outcome
    /\ UNCHANGED <<store, enr, saved, gate, clock, call,
                   in_standings, in_fixtures, out_parse, out_complete>>

\* hist = pd.read_csv(history_csv) and the dedupe check
ReadHistory(p) ==
    /\ pc[p] = "read"
    /\ saved' = [saved EXCEPT ![p] = saved_matchweeks(read_csv(store))]
    /\ IF df[p][1].matchweek \in saved'[p]
           THEN End(p, "SKIP")
       ELSE /\ pc' = [pc EXCEPT ![p] = "append"]
            /\ UNCHANGED outcome
    /\ UNCHANGED <<store, df, enr, gate, clock, call,
                   in_standings, in_fixtures, out_parse, out_complete>>

AppendRows(p) ==
    /\ pc[p] = "append"
    /\ store' = to_csv_append(df[p], store)
    /\ End(p, "APPEND")
    /\ UNCHANGED <<df, enr, saved, gate, clock, call,
                   in_standings, in_fixtures, out_parse, out_complete>>

CreateFile(p) ==
    /\ pc[p] = "create"
    /\ store' = to_csv_create(df[p])
    /\ End(p, "APPEND")
    /\ UNCHANGED <<df, enr, saved, gate, clock, call,
                   in_standings, in_fixtures, out_parse, out_complete>>

InitMain ==
    /\ InitShared
    /\ store = NoFile
    /\ in_standings = StandingsFailure
    /\ in_fixtures = MatchesFailure

\* runs of main one after the other: each starts after the one before it
\* has ended
Next ==
    \E p \in {1} :
        \/ Parse(p)
        \/ EnrichTeam(p)
        \/ EnrichDone(p)
        \/ ReadHistory(p)
        \/ AppendRows(p)
        \/ CreateFile(p)

Spec == InitMain /\ [][Next]_vars

\* the file as the first run of main leaves it, for a complete round 1
FirstRunFile == append_history(Snapshot(BaseEntries(LEAGUE_SIZE), 1, 0), NoFile).file

InitConc ==
    /\ InitShared
    /\ in_standings = StandingsFailure
    /\ in_fixtures = MatchesFailure
    /\ store \in {NoFile, FirstRunFile}

StartRun(p) == pc[p] = "idle" /\ Parse(p)

\* two runs of main started at any time, on no file or on the file of an
\* earlier run
NextConc ==
    \E p \in Procs :
        \/ StartRun(p)
        \/ EnrichTeam(p)
        \/ EnrichDone(p)
        \/ ReadHistory(p)
        \/ AppendRows(p)
        \/ CreateFile(p)

SpecConc == InitConc /\ [][NextConc]_vars

-----------------------------------------------------------------------------
(* Properties of is_matchweek_complete and parse_standings *)

AllFinished(matches) == \A k \in 1..Len(matches) : matches[k].period = "FullTime"

DistinctTeams(matches) ==
    ({ matches[k].home : k \in 1..Len(matches) }
     \cup { matches[k].away : k \in 1..Len(matches) }) \ {NoId}

\* every fixture names both sides and no team is named twice
NoTeamMissingOrRepeated(matches) ==
    \A k \in 1..Len(matches) :
        /\ matches[k].home # NoId
        /\ matches[k].away # NoId
        /\ matches[k].home # matches[k].away
        /\ \A j \in 1..Len(matches) :
              j # k => {matches[j].home, matches[j].away}
                         \cap {matches[k].home, matches[k].away} = {}

PositionSet(entries) == { entries[i].position : i \in 1..Len(entries) }

C7_WrongEntryCountRaises ==
    (/\ out_parse # NotCalled
     /\ in_standings.ok
     /\ in_standings.tables
     /\ Len(in_standings.entries) # LEAGUE_SIZE)
        => /\ out_parse.kind = "RuntimeError"
           /\ out_parse.msg = "Expected 20 entries"

C7_Witness ==
    /\ out_parse.kind = "RuntimeError"
    /\ Len(in_standings.entries) = LEAGUE_SIZE - 1
    /\ in_fixtures.ok
    /\ ~AllFinished(in_fixtures.data)

\* C8 as stated: for every 20-entry payload whose positions are not exactly
\* 1..20 parse_standings fails and never returns a result, neither rows nor
\* the empty frame.
C8_BadPositionsNeverReturn ==
    (/\ out_parse # NotCalled
     /\ in_standings.ok
     /\ in_standings.tables
     /\ Len(in_standings.entries) = LEAGUE_SIZE
     /\ PositionSet(in_standings.entries) # 1..LEAGUE_SIZE)
        => out_parse.kind \notin {"rows", "empty"}

\* C8 amended: for a 20-entry payload whose positions are not exactly 1..20,
\* parse_standings raises RuntimeError when the completion check returns
\* true; when the check returns false it returns the empty frame, and when
\* the matches request fails that error propagates; it never returns rows.
C8_BadPositionsRaiseOnceComplete ==
    (/\ out_parse # NotCalled
     /\ in_standings.ok
     /\ in_standings.tables
     /\ Len(in_standings.entries) = LEAGUE_SIZE
     /\ PositionSet(in_standings.entries) # 1..LEAGUE_SIZE)
        => /\ out_parse.kind # "rows"
           /\ out_parse.rows = <<>>
           /\ ~in_fixtures.ok => out_parse.kind = "TransportError"
           /\ (in_fixtures.ok /\ is_matchweek_complete(in_fixtures.data))
                 => /\ out_parse.kind = "RuntimeError"
                    /\ out_parse.msg = "Positions are not exactly 1...20."
           /\ (in_fixtures.ok /\ ~is_matchweek_complete(in_fixtures.data))
                 => out_parse.kind = "empty"

C8_Witness ==
    /\ out_parse.kind = "RuntimeError"
    /\ out_parse.msg = "Positions are not exactly 1...20."
    /\ Len(in_standings.entries) = LEAGUE_SIZE
-----------------------------------------------------------------------------
(* Properties of the history file *)

DataLines(file) == IF file.lines = <<>> THEN <<>> ELSE Tail(file.lines)

\* indices of the data lines of the file tagged with round r
LinesOfRound(file, r) ==
    { i \in 1..Len(DataLines(file)) : DataLines(file)[i].matchweek = ToString(r) }

RoundsIn(file) ==
    { r \in 1..MaxRound : LinesOfRound(file, r) # {} }

\* the lines of round r are one snapshot: 20 consecutive lines, one per
\* position 1..20, taken at one time
OneFullSet(file, r) ==
    LET idx == LinesOfRound(file, r)
        d == DataLines(file)
    IN  /\ Cardinality(idx) = LEAGUE_SIZE
        /\ \A i, j \in idx :
              /\ j - i < LEAGUE_SIZE
              /\ d[i].snapshot_utc = d[j].snapshot_utc
        /\ { d[i].position : i \in idx } = { ToString(k) : k \in 1..LEAGUE_SIZE }

\* C1: after any sequence of runs of main carried out one after the other,
\* starting with no history file, every round present in the file is there as
\* exactly one full set of 20 team rows (below one header line).
C1_OneFullSetPerRound ==
    /\ store.exists => store.lines # <<>> /\ Head(store.lines) = HeaderLine
    /\ \A i \in 1..Len(DataLines(store)) :
          \E r \in 1..MaxRound : DataLines(store)[i].matchweek = ToString(r)
    /\ \A r \in RoundsIn(store) : OneFullSet(store, r)

C1_Witness ==
    /\ Cardinality(RoundsIn(store)) = 2
    /\ \E p \in Procs : outcome[p] = "SKIP"

\* C2: when a row of the file already carries the new snapshot's round,
\* append_history leaves the file as it was and reports the round as already
\* recorded; so after any call with a snapshot of round r, also a repeated
\* one, the file holds exactly one set of rows of round r.
C2_AppendIdempotentPerRound ==
    (call.made /\ call.df # <<>>) =>
        LET r == call.df[1].matchweek IN
        /\ LinesOfRound(call.before, r) # {}
              => /\ store = call.before
                 /\ call.report = "already recorded"
        /\ Cardinality(LinesOfRound(store, r)) = LEAGUE_SIZE

C2_Witness ==
    /\ call.made
    /\ call.df # <<>>
    /\ LinesOfRound(call.before, call.df[1].matchweek) # {}
    /\ \E i \in 1..Len(call.before.lines) :
          /\ call.before.lines[i].matchweek = ToString(call.df[1].matchweek)
          /\ call.before.lines[i].snapshot_utc # ToString(call.df[1].snapshot_utc)
    /\ store = call.before

\* C3: append_history with no rows changes nothing: a missing file stays
\* missing and an existing file keeps its lines.
C3_EmptyAppendIsNoOp ==
    (call.made /\ call.df = <<>>) => store = call.before

C3_Witness ==
    /\ call.made
    /\ call.df = <<>>
    /\ ~store.exists

\* C4: appending a snapshot of a round absent from an existing non-empty file
\* adds exactly 20 lines, all tagged with that round, after the lines that
\* were there, which stay as they were and in the same order.
C4_NewRoundAddsTwentyRows ==
    (/\ call.made
     /\ call.df # <<>>
     /\ call.before.exists
     /\ DataLines(call.before) # <<>>
     /\ LinesOfRound(call.before, call.df[1].matchweek) = {})
        => LET n == Len(call.before.lines) IN
           /\ Len(store.lines) = n + LEAGUE_SIZE
           /\ SubSeq(store.lines, 1, n) = call.before.lines
           /\ \A i \in (n + 1)..Len(store.lines) :
                 store.lines[i].matchweek = ToString(call.df[1].matchweek)
           /\ SubSeq(store.lines, n + 1, n + LEAGUE_SIZE) = CsvLines(call.df)

C4_Witness ==
    /\ call.made
    /\ call.report = "Appended"
    /\ Len(call.before.lines) = 1 + LEAGUE_SIZE
    /\ Len(store.lines) = 1 + 2 * LEAGUE_SIZE

-----------------------------------------------------------------------------
(* Properties of main *)

\* both runs read a file that existed, found round r absent and appended
BothAppendedAfterRead(r) ==
    \A p \in Procs :
        /\ outcome[p] = "APPEND"
        /\ saved[p] # {}
        /\ r \notin saved[p]
        /\ df[p] # <<>>
        /\ df[p][1].matchweek = r

\* C9: runs of main that overlap are not safe: when two runs both read an
\* existing file without round r and pass the dedupe check before either
\* appends, the file ends up with two full sets (40 rows) of round r.
C9_OverlappingRunsDuplicateRound ==
    \A r \in 1..MaxRound :
        BothAppendedAfterRead(r)
            => /\ Cardinality(LinesOfRound(store, r)) = 2 * LEAGUE_SIZE
               /\ ~OneFullSet(store, r)

C9_Witness ==
    \E r \in 1..MaxRound :
        /\ BothAppendedAfterRead(r)
        /\ Cardinality(LinesOfRound(store, r)) = 2 * LEAGUE_SIZE

\* the step of run p that writes the file
IsFinalAppend(p) ==
    /\ pc[p] \in {"append", "create"}
    /\ pc'[p] = "done"
    /\ outcome'[p] = "APPEND"
    /\ gate[p] = "True"
    /\ Len(df[p]) = LEAGUE_SIZE
    /\ Len(enr[p]) = LEAGUE_SIZE
    /\ \A i \in 1..LEAGUE_SIZE : df[p][i].next_opponent_id = enr[p][i].opp_id
    /\ pc[p] = "append" => /\ saved[p] # {}
                           /\ df[p][1].matchweek \notin saved[p]
                           /\ LinesOfRound(store, df[p][1].matchweek) = {}
                           /\ store.exists
                           /\ store'.lines = store.lines \o CsvLines(df[p])
    /\ pc[p] = "create" => /\ ~store.exists
                           /\ store'.lines = <<HeaderLine>> \o CsvLines(df[p])

\* C10: in a run of main the file is written only by the final append, which
\* comes after the completion check returned true, parsing and the enrichment
\* of all 20 teams succeeded and the dedupe check found the round absent; that
\* step adds all 20 rows of the round.  A run that ends any other way (not
\* ready, duplicate, or an error in fetch, parse or enrichment) leaves the
\* file as it was.
C10_OnlyFinalAppendWrites ==
    [][ /\ store' # store => \E p \in Procs : IsFinalAppend(p)
        /\ \A p \in Procs :
              (pc[p] # "done" /\ pc'[p] = "done" /\ outcome'[p] # "APPEND")
                  => /\ store' = store
                     /\ outcome'[p] \in {"NOT_READY", "SKIP", "TransportError",
                                         "RuntimeError"}
      ]_vars

C10_Witness ==
    \E p \in Procs :
        /\ outcome[p] = "APPEND"
        /\ Len(store.lines) = 1 + 2 * LEAGUE_SIZE
        /\ \E i \in 1..Len(store.lines) :
              store.lines[i].snapshot_utc = ToString(df[p][1].snapshot_utc)

====
